---- MODULE Spec2Model ----
(***************************************************************************)
(* Model of mbox_analyzer.py: the MboxReader boundary scanner, the         *)
(* read_messages record extractor with its two normalizers, agg_stats,     *)
(* sort_stats, print_messages and the wiring of main.                      *)
(*                                                                         *)
(* Bytes and characters are one-character strings; a bytes object or a str *)
(* is a sequence of them.  The generators of the program are coroutines of *)
(* one thread, so one program counter pc says which of them runs next.     *)
(***************************************************************************)
EXTENDS Integers, Sequences, FiniteSets, TLC

VARIABLES
    file,       \* the bytes of the mbox file named on the command line
    agg,        \* args.agg
    sort,       \* args.sort
    pc,         \* position of the single thread of control
    size,       \* MboxReader.size
    hpos,       \* offset of MboxReader.handle (what handle.tell() returns)
    lines,      \* local `lines` of MboxReader.__next__
    line,       \* local `line` of MboxReader.__next__
    msg,        \* the message the scanner has yielded: <<>> or <<[bytes, _x_sz]>>
    cur,        \* the StatisticsLine read_messages has yielded: <<>> or <<record>>
    t0,         \* local `t0` of read_messages, in seconds since the call
    report,     \* the last progress line logged: <<>> or <<pos, size>>
    sizes,      \* local `sizes` of agg_stats, an insertion-ordered dict
    counts,     \* local `counts` of agg_stats, an insertion-ordered dict
    aggIdx,     \* how many items of sizes.items() agg_stats has yielded
    all_stats,  \* local `all_stats` of sort_stats
    printIdx,   \* how many elements of the sorted list print_messages has taken
    out,        \* the lines print_messages has written to stdout
    yielded,    \* history: every StatisticsLine read_messages has yielded
    closers,    \* history: the offset of every line that closed a record
    arg,        \* argument of a function applied on its own
    ret,        \* <<>> or <<result>> of a function applied on its own
    iter        \* how many iterations of the MboxReader have been started

vars == <<file, agg, sort, pc, size, hpos, lines, line, msg, cur, t0, report,
          sizes, counts, aggIdx, all_stats, printIdx, out, yielded, closers,
          arg, ret, iter>>

(***************************************************************************)
(* Bounds of the model.                                                    *)
(***************************************************************************)
MaxChunks == 4      \* a file is the concatenation of at most this many chunks
MaxIters == 2       \* iterations started on one MboxReader
MaxStats == 3       \* longest StatisticsLine sequence given to a function

(***************************************************************************)
(* Characters, strings and sequences.                                      *)
(***************************************************************************)
\* The characters used, in increasing code point order.
AsciiOrder ==
    <<"\n", " ", ",", "-", ".", ":", "<", ">", "@", "B", "C", "D", "F", "G",
      "I", "J", "L", "N", "O", "P", "W", "X", "a", "b", "c", "d", "e", "g",
      "i", "j", "k", "l", "m", "n", "o", "p", "r", "s", "t", "x", "y">>

Code(c) == CHOOSE i \in 1..Len(AsciiOrder) : AsciiOrder[i] = c

Min(S) == CHOOSE x \in S : \A y \in S : x <= y

StartsWith(s, p) == Len(s) >= Len(p) /\ SubSeq(s, 1, Len(p)) = p

\* Python's str < str: lexicographic by code point, a proper prefix is smaller.
RECURSIVE StrLess(_, _)
StrLess(a, b) ==
    IF b = <<>> THEN FALSE
    ELSE IF a = <<>> THEN TRUE
    ELSE IF Head(a) = Head(b) THEN StrLess(Tail(a), Tail(b))
    ELSE Code(Head(a)) < Code(Head(b))

\* b''.join(ls) and ''.join(ls)
RECURSIVE Join(_)
Join(ls) == IF ls = <<>> THEN <<>> ELSE Head(ls) \o Join(Tail(ls))

\* sep.join(ls)
RECURSIVE JoinWith(_, _)
JoinWith(sep, ls) ==
    IF ls = <<>> THEN <<>>
    ELSE IF Len(ls) = 1 THEN ls[1]
    ELSE ls[1] \o sep \o JoinWith(sep, Tail(ls))

\* s.split(c): the pieces between the occurrences of c, empty pieces kept.
RECURSIVE Split(_, _)
Split(s, c) ==
    LET Hits == {i \in 1..Len(s) : s[i] = c}
    IN  IF Hits = {} THEN <<s>>
        ELSE LET i == Min(Hits)
             IN  <<SubSeq(s, 1, i - 1)>> \o Split(SubSeq(s, i + 1, Len(s)), c)

RECURSIVE SumSeq(_)
SumSeq(s) == IF s = <<>> THEN 0 ELSE Head(s) + SumSeq(Tail(s))

(***************************************************************************)
(* The byte source.                                                        *)
(***************************************************************************)
From_ == <<"F", "r", "o", "m", " ">>

\* handle.readline() at offset p: the bytes up to and including the next
\* newline, or up to the end of the file; b'' at the end of the file.
readline(f, p) ==
    LET Ends == {i \in (p + 1)..Len(f) : f[i] = "\n"}
    IN  IF p >= Len(f) THEN <<>>
        ELSE SubSeq(f, p + 1, IF Ends = {} THEN Len(f) ELSE Min(Ends))

\* A scanner that looks for the sentinel anywhere in the line:
\* b'From ' in line.
IsSentinel_Anywhere(l) ==
    \E i \in 0..(Len(l) - Len(From_)) :
        SubSeq(l, i + 1, i + Len(From_)) = From_

\* line.startswith(b'From ')
IsSentinel(l) == StartsWith(l, From_)

\* The chunks the files of the model are built from.  A chunk without a
\* trailing newline runs into the chunk after it, so "x" followed by
\* "From a\n" is the one line "xFrom a\n".
SentinelChunk == <<"F", "r", "o", "m", " ", "a", "\n">>
FromHdrChunk ==
    <<"F", "r", "o", "m", ":", " ", "J", " ", "<", "a", "@", "b", ">", "\n">>
LabelsHdrChunk ==
    <<"X", "-", "G", "m", "a", "i", "l", "-", "L", "a", "b", "e", "l", "s",
      ":", " ", "W", ",", "I", "n", "b", "o", "x", "\n">>
NoneHdrChunk == <<"F", "r", "o", "m", ":", " ", "N", "o", "n", "e", "\n">>
BlankChunk == <<"\n">>
TextChunk == <<"x">>

Chunks ==
    {SentinelChunk, FromHdrChunk, NoneHdrChunk, LabelsHdrChunk, BlankChunk,
     TextChunk}

RECURSIVE FilesOf(_)
FilesOf(n) ==
    IF n = 0 THEN {<<>>}
    ELSE LET S == FilesOf(n - 1) IN S \cup {f \o c : f \in S, c \in Chunks}

Files == FilesOf(MaxChunks)

(***************************************************************************)
(* Header lookup: email.message_from_bytes(bytes_, policy=default) and     *)
(* msg[name].  The header block is the run of leading lines of the form    *)
(* name ":" value, where name has no space and no newline; the first other *)
(* line starts the body.  No line of the model's files starts with a blank *)
(* or a tab, so there are no folded headers.                               *)
(***************************************************************************)
NameEnd(l) ==
    LET Colons == {i \in 1..Len(l) : l[i] = ":"}
    IN  IF Colons = {} THEN 0 ELSE Min(Colons)

IsHeaderLine(l) ==
    /\ NameEnd(l) > 0
    /\ \A i \in 1..(NameEnd(l) - 1) : l[i] \notin {" ", "\n"}

RECURSIVE LStrip(_)
LStrip(s) == IF s # <<>> /\ Head(s) = " " THEN LStrip(Tail(s)) ELSE s

RECURSIVE RStripNL(_)
RStripNL(s) ==
    IF s # <<>> /\ s[Len(s)] = "\n" THEN RStripNL(SubSeq(s, 1, Len(s) - 1))
    ELSE s

RECURSIVE ParseHeaders(_, _)
ParseHeaders(b, p) ==
    LET l == readline(b, p)
    IN  IF l = <<>> \/ ~IsHeaderLine(l) THEN <<>>
        ELSE <<[name |-> SubSeq(l, 1, NameEnd(l) - 1),
                value |-> RStripNL(LStrip(SubSeq(l, NameEnd(l) + 1, Len(l))))]>>
             \o ParseHeaders(b, p + Len(l))

\* msg[name]: <<>> is None, <<v>> is the value of the first header so named.
HeaderGet(b, name) ==
    LET hs == ParseHeaders(b, 0)
        Hits == {i \in 1..Len(hs) : hs[i].name = name}
    IN  IF Hits = {} THEN <<>> ELSE <<hs[Min(Hits)].value>>

NoneStr == <<"N", "o", "n", "e">>

From_header == <<"F", "r", "o", "m">>
Labels_header ==
    <<"X", "-", "G", "m", "a", "i", "l", "-", "L", "a", "b", "e", "l", "s">>

\* A missing header rendered as the empty string.
StrOf_Empty(v) == IF v = <<>> THEN <<>> ELSE v[1]

\* str(x) if x is None else x
StrOf(v) == IF v = <<>> THEN NoneStr ELSE v[1]

(***************************************************************************)
(* extract_address and filter_gmail_labels.                                *)
(***************************************************************************)
FirstIn(x, from, S) ==
    LET Hits == {i \in from..Len(x) : x[i] \in S}
    IN  IF Hits = {} THEN 0 ELSE Min(Hits)

\* Whether <([^>@]+@[^>]+)> matches x starting at index i.  Both runs are
\* greedy and every shorter run is followed by a character of the run's own
\* class, so the regex matches exactly when the maximal runs do.
AddrAt(x, i) == FirstIn(x, i + 1, {">", "@"})
AddrEnd(x, i) == FirstIn(x, AddrAt(x, i) + 1, {">"})
\* The regex with * for the first +: <([^>@]*@[^>]+)>
MatchesAt_EmptyLocal(x, i) ==
    /\ x[i] = "<"
    /\ AddrAt(x, i) > i
    /\ x[AddrAt(x, i)] = "@"
    /\ AddrEnd(x, i) > AddrAt(x, i) + 1

MatchesAt(x, i) ==
    /\ x[i] = "<"
    /\ AddrAt(x, i) > i + 1
    /\ x[AddrAt(x, i)] = "@"
    /\ AddrEnd(x, i) > AddrAt(x, i) + 1

extract_address(x) ==
    LET Starts == {i \in 1..Len(x) : MatchesAt(x, i)}
    IN  IF Starts # {}
        THEN SubSeq(x, Min(Starts) + 1, AddrEnd(x, Min(Starts)) - 1)
        ELSE x

Inbox == <<"I", "n", "b", "o", "x">>
Important == <<"I", "m", "p", "o", "r", "t", "a", "n", "t">>
Opened == <<"O", "p", "e", "n", "e", "d">>
CategoryPrefix == <<"C", "a", "t", "e", "g", "o", "r", "y", " ">>

IsGoodLabel(x) ==
    /\ x \notin {Inbox, Important, Opened}
    /\ ~StartsWith(x, CategoryPrefix)

filter_gmail_labels(comma_separated_labels) ==
    SelectSeq(Split(comma_separated_labels, ","), IsGoodLabel)

\* A sort that drops a label it already holds: sorted(set(labels)).
InsertLabel_Dedup(s, x) ==
    LET Keep == {i \in 1..Len(s) : ~StrLess(x, s[i])}
        n == IF Keep = {} THEN 0 ELSE CHOOSE i \in Keep : \A j \in Keep : j <= i
    IN  IF \E i \in 1..Len(s) : s[i] = x THEN s
        ELSE SubSeq(s, 1, n) \o <<x>> \o SubSeq(s, n + 1, Len(s))

\* sorted(labels): x goes after every element that is not greater than it.
InsertLabel(s, x) ==
    LET Keep == {i \in 1..Len(s) : ~StrLess(x, s[i])}
        n == IF Keep = {} THEN 0 ELSE CHOOSE i \in Keep : \A j \in Keep : j <= i
    IN  SubSeq(s, 1, n) \o <<x>> \o SubSeq(s, n + 1, Len(s))

RECURSIVE SortedLabels(_)
SortedLabels(ls) ==
    IF ls = <<>> THEN <<>>
    ELSE InsertLabel(SortedLabels(SubSeq(ls, 1, Len(ls) - 1)), ls[Len(ls)])

\* The body of the loop of read_messages up to its yield.
StatOf(m) ==
    [count |-> 1,
     total_size_bytes |-> m._x_sz,
     from_addr |-> extract_address(StrOf(HeaderGet(m.bytes, From_header))),
     labels |-> JoinWith(<<",">>, SortedLabels(filter_gmail_labels(
                    StrOf(HeaderGet(m.bytes, Labels_header)))))]

(***************************************************************************)
(* agg_stats and sort_stats.  A dict is the sequence of its <<key, value>> *)
(* items in insertion order, which is the order sizes.items() iterates in. *)
(***************************************************************************)
\* A key that leaves the labels out.
key_FromOnly(x) == <<x.from_addr, <<>>>>

key(x) == <<x.from_addr, x.labels>>

DictHas(d, k) == \E i \in 1..Len(d) : d[i][1] = k

DictGet(d, k) == d[CHOOSE i \in 1..Len(d) : d[i][1] = k][2]

\* d[k] = v in place of d[k] += v
DictAdd_Overwrite(d, k, v) ==
    IF DictHas(d, k)
    THEN [i \in 1..Len(d) |-> IF d[i][1] = k THEN <<k, v>> ELSE d[i]]
    ELSE Append(d, <<k, v>>)

\* A grouping structure that moves a key to the end when it is updated.
DictAdd_MoveToEnd(d, k, v) ==
    IF DictHas(d, k)
    THEN Append(SelectSeq(d, LAMBDA e : e[1] # k), <<k, DictGet(d, k) + v>>)
    ELSE Append(d, <<k, v>>)

\* d[k] += v on a defaultdict(int)
DictAdd(d, k, v) ==
    IF DictHas(d, k)
    THEN [i \in 1..Len(d) |-> IF d[i][1] = k THEN <<k, d[i][2] + v>> ELSE d[i]]
    ELSE Append(d, <<k, v>>)

\* The i-th line the second loop of agg_stats yields.
AggLine(sz, cn, i) ==
    [count |-> DictGet(cn, sz[i][1]),
     total_size_bytes |-> sz[i][2],
     from_addr |-> sz[i][1][1],
     labels |-> sz[i][1][2]]

RECURSIVE AggSizes(_)
AggSizes(ms) ==
    IF ms = <<>> THEN <<>>
    ELSE LET m == ms[Len(ms)]
         IN  DictAdd(AggSizes(SubSeq(ms, 1, Len(ms) - 1)), key(m),
                     m.total_size_bytes)

RECURSIVE AggCounts(_)
AggCounts(ms) ==
    IF ms = <<>> THEN <<>>
    ELSE LET m == ms[Len(ms)]
         IN  DictAdd(AggCounts(SubSeq(ms, 1, Len(ms) - 1)), key(m), m.count)

agg_stats(ms) ==
    [i \in 1..Len(AggSizes(ms)) |-> AggLine(AggSizes(ms), AggCounts(ms), i)]

\* An unstable insertion: x goes before the elements whose key equals its own.
InsertStat_BeforeEqual(s, x) ==
    LET Keep == {i \in 1..Len(s) : s[i].total_size_bytes < x.total_size_bytes}
        n == IF Keep = {} THEN 0 ELSE CHOOSE i \in Keep : \A j \in Keep : j <= i
    IN  SubSeq(s, 1, n) \o <<x>> \o SubSeq(s, n + 1, Len(s))

\* list.sort(key=...) is stable: x goes after every element whose key is
\* not greater than its own.
InsertStat(s, x) ==
    LET Keep == {i \in 1..Len(s) : s[i].total_size_bytes <= x.total_size_bytes}
        n == IF Keep = {} THEN 0 ELSE CHOOSE i \in Keep : \A j \in Keep : j <= i
    IN  SubSeq(s, 1, n) \o <<x>> \o SubSeq(s, n + 1, Len(s))

RECURSIVE sort_stats(_)
sort_stats(ms) ==
    IF ms = <<>> THEN <<>>
    ELSE InsertStat(sort_stats(SubSeq(ms, 1, Len(ms) - 1)), ms[Len(ms)])

(***************************************************************************)
(* The run of main on one file with one choice of flags.                   *)
(***************************************************************************)
NoFunction == arg = <<>> /\ ret = <<>>

Init ==
    /\ file \in Files
    /\ agg \in BOOLEAN
    /\ sort \in BOOLEAN
    /\ pc = "start"
    /\ size = 0
    /\ hpos = 0
    /\ lines = <<>>
    /\ line = <<>>
    /\ msg = <<>>
    /\ cur = <<>>
    /\ t0 = 0
    /\ report = <<>>
    /\ sizes = <<>>
    /\ counts = <<>>
    /\ aggIdx = 0
    /\ all_stats = <<>>
    /\ printIdx = 0
    /\ out = <<>>
    /\ yielded = <<>>
    /\ closers = <<>>
    /\ iter = 0
    /\ NoFunction

\* A constructor that reads the first line and does not check it.
Construct_NoCheck ==
    /\ pc = "start"
    /\ size' = Len(file)
    /\ hpos' = Len(readline(file, 0))
    /\ pc' = "built"
    /\ UNCHANGED <<file, agg, sort, lines, line, msg, cur, t0, report, sizes,
                   counts, aggIdx, all_stats, printIdx, out, yielded, closers,
                   arg, ret, iter>>

\* A constructor that seeks back to the start after checking the first line.
Construct_Rewinds ==
    /\ pc = "start"
    /\ size' = Len(file)
    /\ hpos' = 0
    /\ pc' = IF IsSentinel(readline(file, 0)) THEN "built" ELSE "failed"
    /\ UNCHANGED <<file, agg, sort, lines, line, msg, cur, t0, report, sizes,
                   counts, aggIdx, all_stats, printIdx, out, yielded, closers,
                   arg, ret, iter>>

\* MboxReader.__init__, called by main: the size is taken by seeking to the
\* end, the first line is read and asserted to be a sentinel line.  A failed
\* assertion ends the process.
Construct ==
    /\ pc = "start"
    /\ size' = Len(file)
    /\ hpos' = Len(readline(file, 0))
    /\ pc' = IF IsSentinel(readline(file, 0)) THEN "built" ELSE "failed"
    /\ UNCHANGED <<file, agg, sort, lines, line, msg, cur, t0, report, sizes,
                   counts, aggIdx, all_stats, printIdx, out, yielded, closers,
                   arg, ret, iter>>

\* main builds the generators and the first consumer pulls: sort_stats's
\* list(ms) or print_messages's for loop.  The pull runs agg_stats up to its
\* first loop (under --agg), read_messages up to its for loop and the scanner
\* up to its while loop.
FirstPull ==
    /\ pc = "built"
    /\ sizes' = <<>>
    /\ counts' = <<>>
    /\ t0' = 0
    /\ lines' = <<>>
    /\ iter' = 1
    /\ pc' = "scan"
    /\ UNCHANGED <<file, agg, sort, size, hpos, line, msg, cur, report,
                   aggIdx, all_stats, printIdx, out, yielded, closers, arg,
                   ret>>

\* A scanner that sets _x_sz to len(lines), the number of lines.
ReadLine_CountsLines ==
    /\ pc = "scan"
    /\ LET l == readline(file, hpos)
       IN  /\ line' = l
           /\ hpos' = hpos + Len(l)
           /\ IF l = <<>> \/ IsSentinel(l)
              THEN /\ msg' = <<[bytes |-> Join(lines), _x_sz |-> Len(lines)]>>
                   /\ closers' = Append(closers, hpos)
                   /\ pc' = "msg"
                   /\ UNCHANGED lines
              ELSE /\ lines' = Append(lines, l)
                   /\ UNCHANGED <<msg, closers, pc>>
    /\ UNCHANGED <<file, agg, sort, size, cur, t0, report, sizes, counts,
                   aggIdx, all_stats, printIdx, out, yielded, arg, ret, iter>>

\* A scanner that yields only a non-empty buffer: if lines: yield ...
ReadLine_SkipsEmpty ==
    /\ pc = "scan"
    /\ LET l == readline(file, hpos)
       IN  /\ line' = l
           /\ hpos' = hpos + Len(l)
           /\ IF (l = <<>> \/ IsSentinel(l)) /\ lines # <<>>
              THEN /\ msg' = <<[bytes |-> Join(lines), _x_sz |-> Len(Join(lines))]>>
                   /\ closers' = Append(closers, hpos)
                   /\ pc' = "msg"
                   /\ UNCHANGED lines
              ELSE IF l = <<>>
              THEN /\ pc' = IF agg THEN "items"
                            ELSE IF sort THEN "sort"
                            ELSE "done"
                   /\ UNCHANGED <<lines, msg, closers>>
              ELSE IF IsSentinel(l)
              THEN UNCHANGED <<lines, msg, closers, pc>>
              ELSE /\ lines' = Append(lines, l)
                   /\ UNCHANGED <<msg, closers, pc>>
    /\ UNCHANGED <<file, agg, sort, size, cur, t0, report, sizes, counts,
                   aggIdx, all_stats, printIdx, out, yielded, arg, ret, iter>>

\* One turn of the while loop of MboxReader.__next__: a sentinel line or the
\* end of the file closes the record and the generator yields it; any other
\* line is appended to the buffer.
ReadLine ==
    /\ pc = "scan"
    /\ LET l == readline(file, hpos)
       IN  /\ line' = l
           /\ hpos' = hpos + Len(l)
           /\ IF l = <<>> \/ IsSentinel(l)
              THEN /\ msg' = <<[bytes |-> Join(lines), _x_sz |-> Len(Join(lines))]>>
                   /\ closers' = Append(closers, hpos)
                   /\ pc' = "msg"
                   /\ UNCHANGED lines
              ELSE /\ lines' = Append(lines, l)
                   /\ UNCHANGED <<msg, closers, pc>>
    /\ UNCHANGED <<file, agg, sort, size, cur, t0, report, sizes, counts,
                   aggIdx, all_stats, printIdx, out, yielded, arg, ret, iter>>

\* read_messages takes the message and yields its StatisticsLine.
Extract ==
    /\ pc = "msg"
    /\ cur' = <<StatOf(msg[1])>>
    /\ yielded' = Append(yielded, StatOf(msg[1]))
    /\ msg' = <<>>
    /\ pc' = "stat"
    /\ UNCHANGED <<file, agg, sort, size, hpos, lines, line, t0, report,
                   sizes, counts, aggIdx, all_stats, printIdx, out, closers,
                   arg, ret, iter>>

\* An aggregator that also prints every line it takes.
Consume_Running ==
    /\ pc = "stat"
    /\ IF agg
       THEN /\ sizes' = DictAdd(sizes, key(cur[1]), cur[1].total_size_bytes)
            /\ counts' = DictAdd(counts, key(cur[1]), cur[1].count)
            /\ out' = Append(out, cur[1])
            /\ UNCHANGED all_stats
       ELSE IF sort
       THEN /\ all_stats' = Append(all_stats, cur[1])
            /\ UNCHANGED <<sizes, counts, out>>
       ELSE /\ out' = Append(out, cur[1])
            /\ UNCHANGED <<sizes, counts, all_stats>>
    /\ cur' = <<>>
    /\ pc' = "resume"
    /\ UNCHANGED <<file, agg, sort, size, hpos, lines, line, msg, t0, report,
                   aggIdx, printIdx, yielded, closers, arg, ret, iter>>

\* A print_messages that collects its lines and prints them at the end.
Consume_Buffered ==
    /\ pc = "stat"
    /\ IF agg
       THEN /\ sizes' = DictAdd(sizes, key(cur[1]), cur[1].total_size_bytes)
            /\ counts' = DictAdd(counts, key(cur[1]), cur[1].count)
            /\ UNCHANGED <<all_stats, out>>
       ELSE /\ all_stats' = Append(all_stats, cur[1])
            /\ UNCHANGED <<sizes, counts, out>>
    /\ cur' = <<>>
    /\ pc' = "resume"
    /\ UNCHANGED <<file, agg, sort, size, hpos, lines, line, msg, t0, report,
                   aggIdx, printIdx, yielded, closers, arg, ret, iter>>

\* The consumer of read_messages takes the line: the first loop of agg_stats
\* under --agg, list(ms) of sort_stats under --sort alone, print_messages
\* otherwise.  Its next pull resumes read_messages after the yield.
Consume ==
    /\ pc = "stat"
    /\ IF agg
       THEN /\ sizes' = DictAdd(sizes, key(cur[1]), cur[1].total_size_bytes)
            /\ counts' = DictAdd(counts, key(cur[1]), cur[1].count)
            /\ UNCHANGED <<all_stats, out>>
       ELSE IF sort
       THEN /\ all_stats' = Append(all_stats, cur[1])
            /\ UNCHANGED <<sizes, counts, out>>
       ELSE /\ out' = Append(out, cur[1])
            /\ UNCHANGED <<sizes, counts, all_stats>>
    /\ cur' = <<>>
    /\ pc' = "resume"
    /\ UNCHANGED <<file, agg, sort, size, hpos, lines, line, msg, t0, report,
                   aggIdx, printIdx, yielded, closers, arg, ret, iter>>

\* reader.pos: handle.tell()
pos == hpos

\* A pos that finds the offset by seeking: handle.seek(0, os.SEEK_END).
Progress_Seeks ==
    /\ pc = "resume"
    /\ t0' = t0 + 1
    /\ hpos' = size
    /\ report' = <<size, size>>
    /\ pc' = "next"
    /\ UNCHANGED <<file, agg, sort, size, lines, line, msg, cur, sizes,
                   counts, aggIdx, all_stats, printIdx, out, yielded, closers,
                   arg, ret, iter>>

\* read_messages after its yield, when the clock shows a later second than
\* t0: it reads reader.pos and reader.size and logs them.
Progress ==
    /\ pc = "resume"
    /\ t0' = t0 + 1
    /\ report' = <<pos, size>>
    /\ pc' = "next"
    /\ UNCHANGED <<file, agg, sort, size, hpos, lines, line, msg, cur, sizes,
                   counts, aggIdx, all_stats, printIdx, out, yielded, closers,
                   arg, ret, iter>>

\* read_messages after its yield, within the same second as t0.
NoProgress ==
    /\ pc = "resume"
    /\ pc' = "next"
    /\ UNCHANGED <<file, agg, sort, size, hpos, lines, line, msg, cur, t0,
                   report, sizes, counts, aggIdx, all_stats, printIdx, out,
                   yielded, closers, arg, ret, iter>>

\* A scanner without the break at the end of the file.
ScanResume_NoBreak ==
    /\ pc = "next"
    /\ lines' = <<>>
    /\ pc' = "scan"
    /\ UNCHANGED <<file, agg, sort, size, hpos, line, msg, cur, t0, report,
                   sizes, counts, aggIdx, all_stats, printIdx, out, yielded,
                   closers, arg, ret, iter>>

\* A scanner that starts the next buffer with the line that closed the last
\* record: lines = [line].
ScanResume_KeepsLine ==
    /\ pc = "next"
    /\ IF line = <<>>
       THEN /\ pc' = IF agg THEN "items"
                     ELSE IF sort THEN "sort"
                     ELSE "done"
            /\ UNCHANGED lines
       ELSE /\ lines' = <<line>>
            /\ pc' = "scan"
    /\ UNCHANGED <<file, agg, sort, size, hpos, line, msg, cur, t0, report,
                   sizes, counts, aggIdx, all_stats, printIdx, out, yielded,
                   closers, arg, ret, iter>>

\* The scanner resumes after its yield: at the end of the file it breaks, the
\* generator ends, read_messages logs 100% and ends, and its consumer's loop
\* ends; otherwise the buffer is emptied and the loop continues.
ScanResume ==
    /\ pc = "next"
    /\ IF line = <<>>
       THEN /\ pc' = IF agg THEN "items"
                     ELSE IF sort THEN "sort"
                     ELSE "done"
            /\ UNCHANGED lines
       ELSE /\ lines' = <<>>
            /\ pc' = "scan"
    /\ UNCHANGED <<file, agg, sort, size, hpos, line, msg, cur, t0, report,
                   sizes, counts, aggIdx, all_stats, printIdx, out, yielded,
                   closers, arg, ret, iter>>

\* The second loop of agg_stats yields the next item of sizes.items() to its
\* consumer: list(ms) of sort_stats under --sort, print_messages otherwise.
AggYield ==
    /\ pc = "items"
    /\ aggIdx < Len(sizes)
    /\ aggIdx' = aggIdx + 1
    /\ IF sort
       THEN /\ all_stats' = Append(all_stats, AggLine(sizes, counts, aggIdx + 1))
            /\ UNCHANGED out
       ELSE /\ out' = Append(out, AggLine(sizes, counts, aggIdx + 1))
            /\ UNCHANGED all_stats
    /\ UNCHANGED <<file, agg, sort, pc, size, hpos, lines, line, msg, cur, t0,
                   report, sizes, counts, printIdx, yielded, closers, arg,
                   ret, iter>>

\* agg_stats ends after the last item.
AggEnd ==
    /\ pc = "items"
    /\ aggIdx = Len(sizes)
    /\ pc' = IF sort THEN "sort" ELSE "done"
    /\ UNCHANGED <<file, agg, sort, size, hpos, lines, line, msg, cur, t0,
                   report, sizes, counts, aggIdx, all_stats, printIdx, out,
                   yielded, closers, arg, ret, iter>>

\* A sort_stats whose sorted list is thrown away: sorted(all_stats).
SortAll_NoSort ==
    /\ pc = "sort"
    /\ printIdx' = 0
    /\ pc' = "print"
    /\ UNCHANGED <<file, agg, sort, size, hpos, lines, line, msg, cur, t0,
                   report, sizes, counts, aggIdx, all_stats, out, yielded,
                   closers, arg, ret, iter>>

\* sort_stats sorts the list it has built and returns it.
SortAll ==
    /\ pc = "sort"
    /\ all_stats' = sort_stats(all_stats)
    /\ printIdx' = 0
    /\ pc' = "print"
    /\ UNCHANGED <<file, agg, sort, size, hpos, lines, line, msg, cur, t0,
                   report, sizes, counts, aggIdx, out, yielded, closers, arg,
                   ret, iter>>

\* print_messages prints the next element of the sorted list.
PrintSorted ==
    /\ pc = "print"
    /\ printIdx < Len(all_stats)
    /\ printIdx' = printIdx + 1
    /\ out' = Append(out, all_stats[printIdx + 1])
    /\ UNCHANGED <<file, agg, sort, pc, size, hpos, lines, line, msg, cur, t0,
                   report, sizes, counts, aggIdx, all_stats, yielded, closers,
                   arg, ret, iter>>

\* print_messages ends after the last element and main returns.
PrintEnd ==
    /\ pc = "print"
    /\ printIdx = Len(all_stats)
    /\ pc' = "done"
    /\ UNCHANGED <<file, agg, sort, size, hpos, lines, line, msg, cur, t0,
                   report, sizes, counts, aggIdx, all_stats, printIdx, out,
                   yielded, closers, arg, ret, iter>>

Next ==
    \/ Construct
    \/ FirstPull
    \/ ReadLine
    \/ Extract
    \/ Consume
    \/ Progress
    \/ NoProgress
    \/ ScanResume
    \/ AggYield
    \/ AggEnd
    \/ SortAll
    \/ PrintSorted
    \/ PrintEnd

Spec == Init /\ [][Next]_vars

\* MboxReader.__iter__ called on the reader once more after the run in raw
\* mode has exhausted it: iter(self.__next__()) makes a new generator over
\* the same handle, and the pull of a second
\* print_messages(read_messages(reader)) runs it up to its while loop.
Reiterate ==
    /\ pc = "done"
    /\ ~agg /\ ~sort
    /\ iter < MaxIters
    /\ iter' = iter + 1
    /\ lines' = <<>>
    /\ t0' = 0
    /\ pc' = "scan"
    /\ UNCHANGED <<file, agg, sort, size, hpos, line, msg, cur, report, sizes,
                   counts, aggIdx, all_stats, printIdx, out, yielded, closers,
                   arg, ret>>

NextIter ==
    \/ Next
    \/ Reiterate

SpecIter == Init /\ [][NextIter]_vars

(***************************************************************************)
(* agg_stats and sort_stats applied on their own to a sequence of          *)
(* StatisticsLine.                                                         *)
(***************************************************************************)
StatA == <<"a">>
StatB == <<"b">>
StatW == <<"W">>

StatKeys == {<<StatA, <<>>>>, <<StatA, StatW>>, <<StatB, <<>>>>}

Stats ==
    {[count |-> c, total_size_bytes |-> z, from_addr |-> k[1], labels |-> k[2]] :
        c \in {1, 2}, z \in {1, 2}, k \in StatKeys}

RECURSIVE SeqsOf(_, _)
SeqsOf(S, n) ==
    IF n = 0 THEN {<<>>}
    ELSE LET T == SeqsOf(S, n - 1) IN T \cup {Append(t, x) : t \in T, x \in S}

InitFn ==
    /\ file = <<>>
    /\ agg = FALSE
    /\ sort = FALSE
    /\ pc = "call"
    /\ size = 0
    /\ hpos = 0
    /\ lines = <<>>
    /\ line = <<>>
    /\ msg = <<>>
    /\ cur = <<>>
    /\ t0 = 0
    /\ report = <<>>
    /\ sizes = <<>>
    /\ counts = <<>>
    /\ aggIdx = 0
    /\ all_stats = <<>>
    /\ printIdx = 0
    /\ out = <<>>
    /\ yielded = <<>>
    /\ closers = <<>>
    /\ arg \in SeqsOf(Stats, MaxStats)
    /\ ret = <<>>
    /\ iter = 0

\* list(agg_stats(arg))
ApplyAgg ==
    /\ pc = "call"
    /\ ret' = <<agg_stats(arg)>>
    /\ pc' = "agg_done"
    /\ UNCHANGED <<file, agg, sort, size, hpos, lines, line, msg, cur, t0,
                   report, sizes, counts, aggIdx, all_stats, printIdx, out,
                   yielded, closers, arg, iter>>

\* sort_stats(arg)
ApplySort ==
    /\ pc = "call"
    /\ ret' = <<sort_stats(arg)>>
    /\ pc' = "sort_done"
    /\ UNCHANGED <<file, agg, sort, size, hpos, lines, line, msg, cur, t0,
                   report, sizes, counts, aggIdx, all_stats, printIdx, out,
                   yielded, closers, arg, iter>>

\* sort_stats(sort_stats(arg)): the list returned is sorted once more.
ApplySortAgain ==
    /\ pc = "sort_done"
    /\ ret' = Append(ret, sort_stats(ret[1]))
    /\ pc' = "resort_done"
    /\ UNCHANGED <<file, agg, sort, size, hpos, lines, line, msg, cur, t0,
                   report, sizes, counts, aggIdx, all_stats, printIdx, out,
                   yielded, closers, arg, iter>>

\* sort_stats(agg_stats(arg)), as main chains them under --agg --sort.
ApplyAggSort ==
    /\ pc = "call"
    /\ ret' = <<sort_stats(agg_stats(arg))>>
    /\ pc' = "aggsort_done"
    /\ UNCHANGED <<file, agg, sort, size, hpos, lines, line, msg, cur, t0,
                   report, sizes, counts, aggIdx, all_stats, printIdx, out,
                   yielded, closers, arg, iter>>

NextFn ==
    \/ ApplyAgg
    \/ ApplySort
    \/ ApplySortAgain
    \/ ApplyAggSort

SpecFn == InitFn /\ [][NextFn]_vars

(***************************************************************************)
(* What the claims speak of, read off the file itself.                     *)
(***************************************************************************)
Raw == ~agg /\ ~sort

Range(s) == {s[i] : i \in 1..Len(s)}

\* The offsets at which the lines of f start.
LineStarts(f) == {p \in 0..(Len(f) - 1) : p = 0 \/ f[p] = "\n"}

\* Whether the bytes "From " stand at offset p of f.
FromAt(f, p) ==
    /\ p + 5 <= Len(f)
    /\ f[p + 1] = "F" /\ f[p + 2] = "r" /\ f[p + 3] = "o" /\ f[p + 4] = "m"
    /\ f[p + 5] = " "

\* The offsets of the lines of f that begin with "From ".
SentinelStarts(f) == {p \in LineStarts(f) : FromAt(f, p)}

\* The offset just after the line of f that starts at p.
LineStop(f, p) ==
    IF \E q \in LineStarts(f) : q > p
    THEN Min({q \in LineStarts(f) : q > p})
    ELSE Len(f)

SentinelBytes(f) ==
    LET RECURSIVE Sum(_)
        Sum(S) == IF S = {} THEN 0
                  ELSE LET p == Min(S) IN (LineStop(f, p) - p) + Sum(S \ {p})
    IN  Sum(SentinelStarts(f))

SizesOf(ms) == [i \in 1..Len(ms) |-> ms[i].total_size_bytes]
CountsOf(ms) == [i \in 1..Len(ms) |-> ms[i].count]

\* Where the k-th closed record starts when its leading sentinel line is
\* counted in: at the line that closed the record before it.
SpanStart(k) == IF k = 1 THEN 0 ELSE closers[k - 1]

PairOf(m) == <<m.from_addr, m.labels>>

WithPair(ms, k) == SelectSeq(ms, LAMBDA m : PairOf(m) = k)

\* C3: agg_stats gives exactly one line for every (from_addr, labels) pair of
\* its input and none for any other pair; the line's count and
\* total_size_bytes are the sums over the input lines with that pair.
C3_AggOnePerPair ==
    pc = "agg_done" =>
        LET r == ret[1]
        IN  /\ \A i, j \in 1..Len(r) : i # j => PairOf(r[i]) # PairOf(r[j])
            /\ {PairOf(r[i]) : i \in 1..Len(r)} =
                   {PairOf(arg[i]) : i \in 1..Len(arg)}
            /\ \A i \in 1..Len(r) :
                  /\ r[i].count = SumSeq(CountsOf(WithPair(arg, PairOf(r[i]))))
                  /\ r[i].total_size_bytes =
                         SumSeq(SizesOf(WithPair(arg, PairOf(r[i]))))

C3_Witness ==
    /\ pc = "agg_done"
    /\ Len(arg) = 3
    /\ Len(ret[1]) = 2
    /\ \E i \in 1..2 : ret[1][i].count > 2 /\ ret[1][i].total_size_bytes > 2
    /\ arg[1].from_addr = arg[2].from_addr /\ arg[1].labels # arg[2].labels

\* C4: for every file the --agg run and the raw run agree on the totals:
\* the counts of the aggregated lines add up to the number of records, which
\* is the number of lines the raw run prints, and the sizes add up to the
\* sum of the sizes the raw run prints.
C4_AggConservesTotals ==
    pc = "done" =>
        /\ agg =>
              /\ SumSeq(CountsOf(out)) = Len(yielded)
              /\ SumSeq(SizesOf(out)) = SumSeq(SizesOf(yielded))
              /\ SumSeq(CountsOf(out)) = Cardinality(SentinelStarts(file))
              /\ SumSeq(SizesOf(out)) = Len(file) - SentinelBytes(file)
        /\ Raw =>
              /\ out = yielded
              /\ Len(out) = Cardinality(SentinelStarts(file))
              /\ SumSeq(SizesOf(out)) = Len(file) - SentinelBytes(file)

C4_Witness ==
    /\ agg /\ pc = "done"
    /\ Len(yielded) >= 3
    /\ Len(out) = 2
    /\ \E i \in 1..2 : out[i].count >= 2
    /\ SumSeq(SizesOf(out)) > 0

\* C5: under --agg or --sort nothing is printed before the scanner has read
\* the end of the file and every record read_messages yielded has been taken
\* by the aggregator or the sorter.
C5_BarrierBeforeOutput ==
    ((agg \/ sort) /\ out # <<>>) =>
        /\ pc \in {"items", "sort", "print", "done"}
        /\ hpos = size /\ line = <<>>
        /\ msg = <<>> /\ cur = <<>>
        /\ Len(yielded) = Len(closers)
        /\ agg => SumSeq([i \in 1..Len(counts) |-> counts[i][2]]) = Len(yielded)
        /\ (sort /\ ~agg) => Len(all_stats) = Len(yielded)

C5_Witness ==
    /\ (agg \/ sort)
    /\ Len(out) = 1
    /\ Len(yielded) >= 2
    /\ pc # "done"

\* C6: when the first line of the file does not begin with "From ", the
\* empty file included, the constructor fails, the run is over, no record
\* has been emitted and nothing has been printed.
C6_MalformedIsFatal ==
    (pc # "start" /\ ~FromAt(file, 0)) =>
        /\ pc = "failed"
        /\ ~ENABLED Next
        /\ yielded = <<>> /\ msg = <<>> /\ cur = <<>> /\ closers = <<>>
        /\ out = <<>>

C6_Witness ==
    /\ pc = "failed"
    /\ StartsWith(file, FromHdrChunk)

Perms(n) ==
    {f \in [1..n -> 1..n] : \A i, j \in 1..n : i # j => f[i] # f[j]}

\* C7: sort_stats returns the lines of its input, each as often as the input
\* has it, in ascending order of total_size_bytes, lines of equal size in
\* their input order.
C7_SortStable ==
    pc = "sort_done" =>
        LET r == ret[1]
        IN  /\ Len(r) = Len(arg)
            /\ \E f \in Perms(Len(arg)) :
                  /\ \A i \in 1..Len(r) : r[i] = arg[f[i]]
                  /\ \A i, j \in 1..Len(r) : i < j =>
                        \/ r[i].total_size_bytes < r[j].total_size_bytes
                        \/ /\ r[i].total_size_bytes = r[j].total_size_bytes
                           /\ f[i] < f[j]

C7_Witness ==
    /\ pc = "sort_done"
    /\ Len(arg) = 3
    /\ arg[1].total_size_bytes = 2
    /\ arg[2].total_size_bytes = 1 /\ arg[3].total_size_bytes = 1
    /\ arg[2] # arg[3]
    /\ ret[1] = <<arg[2], arg[3], arg[1]>>

\* C8: in raw mode the k-th line printed is the line of the k-th record the
\* scanner closed, and whenever the scanner is about to read a line every
\* record closed so far has been printed.
C8_RawOnePerPull ==
    Raw =>
        /\ Len(out) <= Len(yielded)
        /\ \A k \in 1..Len(out) :
              /\ out[k] = yielded[k]
              /\ out[k].total_size_bytes =
                     closers[k] - LineStop(file, SpanStart(k))
        /\ Len(yielded) <= Len(closers)
        /\ Len(closers) <= Len(out) + 1
        /\ pc = "scan" => Len(out) = Len(closers)

C8_Witness ==
    /\ Raw /\ pc = "scan"
    /\ Len(out) = 2
    /\ out[1] # out[2]

\* C9: a line the scanner reads closes the current record exactly when the
\* bytes "From " stand at its start; nothing but such a line and the end of
\* the file closes a record, wherever else "From " stands in a line.
C9_AnchoredAtLineStart ==
    /\ \A p \in LineStarts(file) :
          (0 < p /\ p < hpos) => (p \in Range(closers) <=> FromAt(file, p))
    /\ \A c \in Range(closers) :
          \/ c = Len(file)
          \/ c \in LineStarts(file) /\ FromAt(file, c)

C9_Witness ==
    /\ pc = "done"
    /\ \E q \in 1..Len(file) :
          /\ q \notin LineStarts(file)
          /\ FromAt(file, q)
          /\ q > LineStop(file, 0)
    /\ \E p \in SentinelStarts(file) : p > 0
    /\ \E p \in LineStarts(file) : p > 0 /\ ~FromAt(file, p)

KthSmallest(S, k) == CHOOSE p \in S : Cardinality({q \in S : q < p}) = k - 1

\* The bytes between the k-th line of f that begins with "From " and the
\* next such line or the end of f.
RecordBytes(f, k) ==
    LET S == SentinelStarts(f)
    IN  SubSeq(f, LineStop(f, KthSmallest(S, k)) + 1,
               IF k < Cardinality(S) THEN KthSmallest(S, k + 1) ELSE Len(f))

\* C10: the step of read_messages between two pulls, with or without a
\* progress report, changes neither the read offset nor the line buffer nor
\* the size, and the records produced are those the file alone determines,
\* whenever the reports fire.
C10_ProgressReadOnly ==
    /\ [][pc = "resume" =>
             /\ pc' = "next"
             /\ hpos' = hpos /\ lines' = lines /\ line' = line
             /\ size' = size]_vars
    /\ [](\A k \in 1..Len(yielded) :
             yielded[k] = StatOf([bytes |-> RecordBytes(file, k),
                                  _x_sz |-> Len(RecordBytes(file, k))]))

C10_Witness ==
    /\ pc = "done"
    /\ Len(yielded) >= 3
    /\ report # <<>>
    /\ report[1] < size
    /\ t0 = 1

(***************************************************************************)
(* The label normalization of read_messages applied on its own to a label  *)
(* header string.                                                          *)
(***************************************************************************)
MaxLabels == 3      \* most comma-separated tokens in a label string

\* ','.join(list(sorted(filter_gmail_labels(gmail_labels))))
normalized_labels(gmail_labels) ==
    JoinWith(<<",">>, SortedLabels(filter_gmail_labels(gmail_labels)))

Work == <<"W", "o", "r", "k">>
CategoryPersonal == CategoryPrefix \o <<"P", "e", "r", "s", "o", "n", "a", "l">>

LabelTokens ==
    {Inbox, Opened, CategoryPrefix \o <<"x">>, Inbox \o <<"x">>, <<"W">>,
     <<"B">>, <<>>}

LabelExample == JoinWith(<<",">>, <<Inbox, Important, CategoryPersonal, Work>>)
LabelTwice == JoinWith(<<",">>, <<Work, Work>>)

LabelStrings ==
    {JoinWith(<<",">>, ts) : ts \in SeqsOf(LabelTokens, MaxLabels)}
        \cup {LabelExample, LabelTwice}

\* The state before a function is applied on its own to an argument of S.
FnInit(S) ==
    /\ file = <<>>
    /\ agg = FALSE
    /\ sort = FALSE
    /\ pc = "call"
    /\ size = 0
    /\ hpos = 0
    /\ lines = <<>>
    /\ line = <<>>
    /\ msg = <<>>
    /\ cur = <<>>
    /\ t0 = 0
    /\ report = <<>>
    /\ sizes = <<>>
    /\ counts = <<>>
    /\ aggIdx = 0
    /\ all_stats = <<>>
    /\ printIdx = 0
    /\ out = <<>>
    /\ yielded = <<>>
    /\ closers = <<>>
    /\ arg \in S
    /\ ret = <<>>
    /\ iter = 0

InitLabels == FnInit(LabelStrings)

ApplyLabels ==
    /\ pc = "call"
    /\ ret' = <<normalized_labels(arg)>>
    /\ pc' = "labels_done"
    /\ UNCHANGED <<file, agg, sort, size, hpos, lines, line, msg, cur, t0,
                   report, sizes, counts, aggIdx, all_stats, printIdx, out,
                   yielded, closers, arg, iter>>

NextLabels == ApplyLabels

SpecLabels == InitLabels /\ [][NextLabels]_vars

\* The comma-separated tokens of x, read off the positions of its commas.
CommasOf(x) == {i \in 1..Len(x) : x[i] = ","}

TokenOf(x, k) ==
    LET C == CommasOf(x)
        lo == IF k = 1 THEN 0 ELSE KthSmallest(C, k - 1)
        hi == IF k > Cardinality(C) THEN Len(x) + 1 ELSE KthSmallest(C, k)
    IN  SubSeq(x, lo + 1, hi - 1)

TokensOf(x) == [k \in 1..(Cardinality(CommasOf(x)) + 1) |-> TokenOf(x, k)]

Boring(t) ==
    \/ t \in {Inbox, Important, Opened}
    \/ Len(t) >= Len(CategoryPrefix) /\ SubSeq(t, 1, Len(CategoryPrefix)) = CategoryPrefix

\* C11: the normalized label string is the comma-split tokens of the header
\* string without the tokens "Inbox", "Important", "Opened" and those that
\* start with "Category ", in lexicographic order, joined with commas, a
\* token kept as often as it occurs.
C11_LabelsNormalized ==
    pc = "labels_done" =>
        LET K == SelectSeq(TokensOf(arg), LAMBDA t : ~Boring(t))
        IN  /\ \E f \in Perms(Len(K)) :
                  /\ \A i, j \in 1..Len(K) : i < j => ~StrLess(K[f[j]], K[f[i]])
                  /\ ret[1] = JoinWith(<<",">>, [i \in 1..Len(K) |-> K[f[i]]])
            /\ arg = LabelExample => ret[1] = Work
            /\ arg = LabelTwice => ret[1] = LabelTwice

C11_Witness ==
    /\ pc = "labels_done"
    /\ arg = JoinWith(<<",">>, <<<<"W">>, Inbox, <<"B">>>>)
    /\ ret[1] = <<"B", ",", "W">>

\* C12: a message without a From header gets from_addr "None", one without
\* an X-Gmail-Labels header gets labels "None"; it is emitted with its size
\* all the same, the run fails for no other reason than a first line that is
\* no sentinel, every message of the file is emitted, and under --agg a
\* message without a sender is counted in the one group that also holds the
\* messages whose From header reads "None", the labels being equal.
C12_MissingHeaderNotFatal ==
    /\ \A k \in 1..Len(yielded) :
          LET b == RecordBytes(file, k)
          IN  /\ HeaderGet(b, From_header) = <<>> =>
                    yielded[k].from_addr = NoneStr
              /\ HeaderGet(b, Labels_header) = <<>> =>
                    yielded[k].labels = NoneStr
              /\ yielded[k].total_size_bytes = Len(b)
    /\ pc = "failed" => ~FromAt(file, 0)
    /\ pc = "done" => Len(yielded) = Cardinality(SentinelStarts(file))
    /\ (agg /\ pc = "done") =>
          \A j, k \in 1..Len(yielded) :
              ( /\ HeaderGet(RecordBytes(file, j), From_header) = <<>>
                /\ HeaderGet(RecordBytes(file, k), From_header) = <<NoneStr>>
                /\ yielded[j].labels = yielded[k].labels ) =>
                  /\ PairOf(yielded[j]) = PairOf(yielded[k])
                  /\ Cardinality({i \in 1..Len(out) :
                         PairOf(out[i]) = PairOf(yielded[j])}) = 1
                  /\ \A i \in 1..Len(out) :
                         PairOf(out[i]) = PairOf(yielded[j]) => out[i].count >= 2

C12_Witness ==
    /\ agg /\ pc = "done"
    /\ Len(yielded) = 3
    /\ HeaderGet(RecordBytes(file, 1), From_header) = <<>>
    /\ HeaderGet(RecordBytes(file, 2), From_header) = <<NoneStr>>
    /\ HeaderGet(RecordBytes(file, 3), From_header) = <<>>
    /\ Len(out) = 1
    /\ out[1].count = 3

(***************************************************************************)
(* extract_address applied on its own to a sender header string.           *)
(***************************************************************************)
MaxAddrLen == 5     \* longest sender string over the characters < > @ a

JaneDoe ==
    <<"J", "a", "n", "e", " ", "D", "o", "e", " ", "<", "j", "a", "n", "e", "@", "e", "x", "a", "m", "p", "l", "e", ".", "c", "o", "m", ">">>
JaneAddr == <<"j", "a", "n", "e", "@", "e", "x", "a", "m", "p", "l", "e", ".", "c", "o", "m">>
NoReply == <<"n", "o", "r", "e", "p", "l", "y">>
TwoAddrs == <<"<", "a", "@", "b", ">", "<", "b", "@", "a", ">">>

AddrStrings ==
    SeqsOf({"<", ">", "@", "a"}, MaxAddrLen) \cup {JaneDoe, NoReply, TwoAddrs}

InitAddr == FnInit(AddrStrings)

ApplyAddr ==
    /\ pc = "call"
    /\ ret' = <<extract_address(arg)>>
    /\ pc' = "addr_done"
    /\ UNCHANGED <<file, agg, sort, size, hpos, lines, line, msg, cur, t0,
                   report, sizes, counts, aggIdx, all_stats, printIdx, out,
                   yielded, closers, arg, iter>>

NextAddr == ApplyAddr

SpecAddr == InitAddr /\ [][NextAddr]_vars

\* Whether x[i..k] reads <local@domain> with the @ at j, a local part without
\* > and @ and a domain without >, neither of them empty.
IsAddrSpan(x, i, j, k) ==
    /\ i + 1 < j /\ j + 1 < k
    /\ x[i] = "<" /\ x[j] = "@" /\ x[k] = ">"
    /\ \A q \in (i + 1)..(j - 1) : x[q] \notin {">", "@"}
    /\ \A q \in (j + 1)..(k - 1) : x[q] # ">"

HasAddrSpanAt(x, i) ==
    \E j, k \in 1..Len(x) : IsAddrSpan(x, i, j, k)

\* C13: extract_address returns what stands between the brackets of the
\* leftmost substring <local@domain> of its argument, local without > and @,
\* domain without >, and the argument itself when it has no such substring.
C13_ExtractAddress ==
    pc = "addr_done" =>
        /\ IF \E i \in 1..Len(arg) : HasAddrSpanAt(arg, i)
           THEN \E i, j, k \in 1..Len(arg) :
                    /\ IsAddrSpan(arg, i, j, k)
                    /\ \A h \in 1..(i - 1) : ~HasAddrSpanAt(arg, h)
                    /\ ret[1] = SubSeq(arg, i + 1, k - 1)
           ELSE ret[1] = arg
        /\ arg = JaneDoe => ret[1] = JaneAddr
        /\ arg = NoReply => ret[1] = NoReply

C13_Witness ==
    /\ pc = "addr_done"
    /\ arg = TwoAddrs
    /\ ret[1] = <<"a", "@", "b">>

\* Everything the flags ask for has been printed.
OutputComplete ==
    IF agg THEN Len(out) = Len(sizes) ELSE Len(out) = Len(yielded)

Drained == pc \in {"items", "sort", "print", "done"}

\* How far the run is from its end: the steps left after the scanner is
\* drained, and before that the bytes and the end of file still to be read,
\* five steps at most going with each read.
AfterDrain == 4 + 3 * Len(file)

ReadsLeft ==
    (Len(file) - hpos)
        + (IF pc \in {"msg", "stat", "resume", "next"} /\ line = <<>>
           THEN 0 ELSE 1)

StepsLeft ==
    CASE pc = "done" -> 0
      [] pc = "failed" -> 0
      [] pc = "print" -> 1 + (Len(all_stats) - printIdx)
      [] pc = "sort" -> 2 + Len(all_stats)
      [] pc = "items" -> 3 + Len(all_stats) + 2 * (Len(sizes) - aggIdx)
      [] pc = "scan" -> AfterDrain + 5 * ReadsLeft
      [] pc = "next" -> AfterDrain + 5 * ReadsLeft + 1
      [] pc = "resume" -> AfterDrain + 5 * ReadsLeft + 2
      [] pc = "stat" -> AfterDrain + 5 * ReadsLeft + 3
      [] pc = "msg" -> AfterDrain + 5 * ReadsLeft + 4
      [] pc = "built" -> AfterDrain + 5 * (Len(file) + 1) + 6
      [] pc = "start" -> AfterDrain + 5 * (Len(file) + 1) + 7

\* A step can be taken.  Where read_messages is about to take a message the
\* step is Extract, whose only condition is the position and whose only
\* computed value is StatOf of the message, so that value is asked for; so
\* is the sorted list where sort_stats is about to sort, the step being
\* SortAll.
CanStep ==
    IF pc = "msg" THEN msg # <<>> /\ StatOf(msg[1]).count = 1
    ELSE IF pc = "sort" THEN Len(sort_stats(all_stats)) = Len(all_stats)
    ELSE ENABLED Next

\* C14: a run on a file whose first line is a sentinel line ends, whatever
\* the flags.  Every step brings the run nearer to its end by a natural
\* number, so no run loops forever; a run that has not failed can take a
\* step until it is done, and it fails only on a first line that is no
\* sentinel; when it is done the scanner has read the end of the file, its
\* last record has been taken and every line has been printed.  Once the
\* scanner has read the end of the file it yields and reads nothing more.
C14_RunCompletes ==
    /\ [](StepsLeft \in Nat)
    /\ [][StepsLeft' < StepsLeft]_vars
    /\ [](pc \notin {"done", "failed"} => CanStep)
    /\ [](pc = "failed" => ~FromAt(file, 0))
    /\ [](pc = "done" =>
             /\ hpos = size /\ line = <<>> /\ msg = <<>> /\ cur = <<>>
             /\ OutputComplete)
    /\ [][(pc = "next" /\ line = <<>>) => Drained']_vars
    /\ [][Drained =>
             /\ Drained'
             /\ hpos' = hpos /\ closers' = closers /\ yielded' = yielded
             /\ msg' = msg]_vars

C14_Witness ==
    /\ pc = "done"
    /\ agg /\ sort
    /\ Len(yielded) >= 3
    /\ Len(out) >= 2

(***************************************************************************)
(* The stages main puts between read_messages and print_messages.          *)
(***************************************************************************)
main_messages(messages, a, s) ==
    LET aggregated == IF a THEN agg_stats(messages) ELSE messages
    IN  IF s THEN sort_stats(aggregated) ELSE aggregated

AxCom == <<"a", "@", "x", ".", "c", "o", "m">>

\* Three messages of 100, 200 and 300 bytes from a@x.com with the labels
\* Inbox, Work and Work,Inbox.
ExampleStats ==
    <<[count |-> 1, total_size_bytes |-> 100, from_addr |-> AxCom,
       labels |-> normalized_labels(Inbox)],
      [count |-> 1, total_size_bytes |-> 200, from_addr |-> AxCom,
       labels |-> normalized_labels(Work)],
      [count |-> 1, total_size_bytes |-> 300, from_addr |-> AxCom,
       labels |-> normalized_labels(JoinWith(<<",">>, <<Work, Inbox>>))]>>

ExampleGroups ==
    <<[count |-> 1, total_size_bytes |-> 100, from_addr |-> AxCom,
       labels |-> <<>>],
      [count |-> 2, total_size_bytes |-> 500, from_addr |-> AxCom,
       labels |-> Work]>>

\* C15: with --agg and --sort the lines printed are the aggregated groups,
\* one for every (from_addr, labels) pair of the records read, each with the
\* count and the summed size of its records, in ascending order of the
\* summed size; they are what sort_stats gives for what agg_stats gives for
\* the records, which for the three messages of the example is the group
\* (a@x.com, "") of size 100 before the group (a@x.com, "Work") of size 500.
C15_AggThenSort ==
    /\ (agg /\ sort /\ pc = "done") =>
          /\ \A i, j \in 1..Len(out) : i # j => PairOf(out[i]) # PairOf(out[j])
          /\ {PairOf(out[i]) : i \in 1..Len(out)} =
                 {PairOf(yielded[i]) : i \in 1..Len(yielded)}
          /\ \A i \in 1..Len(out) :
                /\ out[i].count = Len(WithPair(yielded, PairOf(out[i])))
                /\ out[i].total_size_bytes =
                       SumSeq(SizesOf(WithPair(yielded, PairOf(out[i]))))
          /\ \A i, j \in 1..Len(out) :
                i < j => out[i].total_size_bytes <= out[j].total_size_bytes
    /\ pc = "done" => out = main_messages(yielded, agg, sort)
    /\ main_messages(ExampleStats, TRUE, TRUE) = ExampleGroups

C15_Witness ==
    /\ agg /\ sort /\ pc = "done"
    /\ Len(out) = 2
    /\ sizes[1][2] > sizes[2][2]
    /\ out[1].total_size_bytes < out[2].total_size_bytes

\* C16: sorting is idempotent: sort_stats applied to what sort_stats
\* returned gives the same sequence, record for record.
C16_SortIdempotent ==
    pc = "resort_done" => ret[2] = ret[1]

\* Three records out of order, two of them of equal size.
C16_Witness ==
    /\ pc = "resort_done"
    /\ Len(arg) = 3
    /\ arg[1].total_size_bytes = 2
    /\ arg[2].total_size_bytes = 1
    /\ arg[3].total_size_bytes = 1
    /\ arg[2] # arg[3]
    /\ ret[1] # arg

\* The index in ms of the first record with the pair k.
FirstOccurrence(ms, k) ==
    Min({i \in 1..Len(ms) : PairOf(ms[i]) = k})

\* C20: agg_stats emits its groups in the order in which their
\* (from_addr, labels) pairs first occurred in the input, and after the
\* stable sort groups of equal summed size are still in that order.
C20_FirstOccurrenceOrder ==
    /\ pc = "agg_done" =>
          \A i, j \in 1..Len(ret[1]) :
              i < j => FirstOccurrence(arg, PairOf(ret[1][i])) <
                       FirstOccurrence(arg, PairOf(ret[1][j]))
    /\ pc = "aggsort_done" =>
          \A i, j \in 1..Len(ret[1]) :
              (i < j /\ ret[1][i].total_size_bytes = ret[1][j].total_size_bytes)
                  => FirstOccurrence(arg, PairOf(ret[1][i])) <
                     FirstOccurrence(arg, PairOf(ret[1][j]))

\* The first pair comes back after another pair was seen.
C20_Witness ==
    /\ pc = "agg_done"
    /\ Len(arg) = 3
    /\ PairOf(arg[1]) = PairOf(arg[3])
    /\ PairOf(arg[1]) # PairOf(arg[2])
    /\ Len(ret[1]) = 2

\* C17 (as stated): an iteration of the same MboxReader started after the
\* first one is exhausted yields no record: the scanner hands nothing to
\* read_messages, and the records yielded stay those of the first iteration,
\* one for every line that begins with "From ".
C17_SecondIterationEmpty ==
    iter >= 2 =>
        /\ msg = <<>>
        /\ Len(yielded) = Cardinality(SentinelStarts(file))

\* The bytes of the sentinel lines read so far: the first line, read by the
\* constructor, and every line that closed a record (none at the end of the
\* file).
SentinelsRead ==
    Len(readline(file, 0)) +
    SumSeq([i \in 1..Len(closers) |-> Len(readline(file, closers[i]))])

\* C18: pos never decreases and never exceeds size; when a record is
\* yielded pos is the sum of the sizes of the records yielded so far, this
\* one included, plus the bytes of the sentinel lines read so far, and
\* between two yields the bytes of the buffer come on top; when the last
\* record is yielded, and from then on, pos is size.
C18_OffsetAccounting ==
    /\ [][pos' >= pos]_vars
    /\ [](pos <= size)
    /\ [](pc = "msg" =>
            pos = SumSeq(SizesOf(yielded)) + msg[1]._x_sz + SentinelsRead)
    /\ [](pc = "scan" =>
            pos = SumSeq(SizesOf(yielded)) + SentinelsRead + Len(Join(lines)))
    /\ []((pc = "msg" /\ line = <<>>) => pos = size)
    /\ [](Drained => pos = size)

C18_Witness ==
    /\ pc = "msg"
    /\ Len(yielded) = 1
    /\ msg[1]._x_sz > 0
    /\ line # <<>>
    /\ Len(closers) = 2

\* C19: a file whose first line begins with "From " gives, over the whole
\* iteration, as many records as it has lines beginning with "From "; the
\* k-th record belongs to the k-th such line and has size 0 when that line
\* is followed at once by another such line or by the end of the file.
C19_OneRecordPerSentinel ==
    LET S == SentinelStarts(file)
    IN  /\ Len(yielded) <= Cardinality(S)
        /\ Drained => Len(yielded) = Cardinality(S)
        /\ (pc = "built" \/ Drained) => Cardinality(S) >= 1
        /\ \A k \in 1..Len(yielded) :
              LET e == LineStop(file, KthSmallest(S, k))
              IN  (e = Len(file) \/ e \in S) =>
                      /\ yielded[k].total_size_bytes = 0
                      /\ yielded[k].count = 1

C19_Witness ==
    /\ pc = "done"
    /\ Len(yielded) = 3
    /\ yielded[1].total_size_bytes = 0
    /\ yielded[2].total_size_bytes > 0
    /\ yielded[3].total_size_bytes = 0

====
